---- MODULE Spec2Model ----
(***************************************************************************)
(* Model of src/client/rabbitmq/rabbitmq_client.py: the two threads of     *)
(* main() (the primary thread and the daemon listener thread), each        *)
(* building its own RabbitMQClient, the broker entities they declare, the  *)
(* single request the primary publishes and the per-delivery callback      *)
(* handle_result of the listener.                                          *)
(* A second state machine, with its own specification MqttSpec, models     *)
(* connect_and_listen of src/client/mqtt/mqtt_client.py.                   *)
(*                                                                         *)
(* The broker, the result-producing bridge, the operator's interrupt and   *)
(* the loss of a connection are the environment.  The pika calls are       *)
(* modelled by their AMQP effect: a declaration creates the entity, is a   *)
(* no-op on an equal one and raises on a different one; basic_nack called  *)
(* without a requeue argument requeues; a call on a closed channel raises. *)
(***************************************************************************)
EXTENDS Integers, Sequences, FiniteSets, TLC

\* ---------------------------------------------------------------- bounds
\* Result messages the bridge publishes in one run.
MaxResults == 2
\* Messages the MQTT broker forwards to the MQTT client in one run.
MaxMqttMsgs == 3
\* Deliveries (delivery tags) the broker hands to the listener in one run.
MaxTag == 3

\* ------------------------------------------------------------- constants
Ctx == {"primary", "listener"}
Absent == [kind |-> "absent"]
None == "None"
\* self.result_queue_name before setup_infrastructure has derived it.
NoQueue == <<>>

\* The settings read from rabbitmq_use.yaml (config['exchanges'],
\* config['queue'], config['digital_twin']).
Config ==
    [ input_bridge  |-> [name |-> "ex.input",  type |-> "topic", durable |-> TRUE],
      bridge_result |-> [name |-> "ex.result", type |-> "topic", durable |-> TRUE],
      queue         |-> [result_queue_prefix |-> "Q", durable |-> TRUE,
                         routing_key |-> "*.result"],
      dt_id         |-> "dt" ]

\* f"{queue_cfg['result_queue_prefix']}.{self.dt_id}.result"
ResultQueueName(cfg) == <<cfg.queue.result_queue_prefix, cfg.dt_id, "result">>

ExchangeNames == {Config.input_bridge.name, Config.bridge_result.name}
QueueNames == {ResultQueueName(Config)}

\* What exchange_declare / queue_declare ask the broker for.
ExchangeArgs(ex) == [kind |-> "exchange", type |-> ex.type, durable |-> ex.durable]
QueueArgs(q) == [kind |-> "queue", durable |-> q.durable]

\* The binding queue_bind asks for.
BindingOf(cfg) ==
    [exchange |-> cfg.bridge_result.name, queue |-> ResultQueueName(cfg),
     routing_key |-> cfg.queue.routing_key]

\* Routing keys of the results the bridge publishes, as character strings:
\* without a dot, with one dot, with two dots.
RoutingKeys ==
    { <<"a">>, <<"a", ".", "b">>, <<"b", ".", "a", ".", "c">> }

\* Entities a broker may already hold before the run.
PreExchange ==
    { Absent,
      [kind |-> "exchange", type |-> "topic",  durable |-> TRUE],
      [kind |-> "exchange", type |-> "topic",  durable |-> FALSE],
      [kind |-> "exchange", type |-> "fanout", durable |-> TRUE] }
PreQueue ==
    { Absent,
      [kind |-> "queue", durable |-> TRUE],
      [kind |-> "queue", durable |-> FALSE] }

VARIABLES
    cfgFile,       \* rabbitmq_use.yaml: "ok", "missing" or "malformed"
    payloadFile,   \* config['payload_file']: "ok" or "missing"
    pc,            \* pc[c]: where thread c stands
    conn,          \* conn[c]: self.connection of c's RabbitMQClient
    chan,          \* chan[c]: self.channel of c's RabbitMQClient
    rqn,           \* rqn[c]: self.result_queue_name
    issued,        \* issued[c]: the channel calls c has issued, in order
    chanUse,       \* every channel call made: by which thread, on which channel
    consumerQueue, \* the queue the listener's basic_consume named, or NoQueue
    death,         \* death[c]: the exception that ended c, or None
    exchanges,     \* broker: exchange name -> its arguments or Absent
    queues,        \* broker: queue name -> its arguments or Absent
    bindings,      \* broker: the bindings
    requests,      \* broker: requests received on the input exchange
    msgs,          \* msgs[m]: body and routing key of the m-th published result
    ready,         \* broker: result queue, message ids ready for delivery
    dropped,       \* results the broker could route to no queue
    deliv,         \* deliv[t]: the delivery with delivery tag t
    cur,           \* the delivery tag handle_result is working on, or 0
    published,     \* one record per basic_publish call of the primary
    interrupted,   \* the interrupt signal has been raised in the primary
    exitStatus,    \* None while main() runs, then the exit status, "0" or "1"
    processGone,   \* the interpreter has exited and taken the daemon thread
    connAttempted, \* the threads that have called pika.BlockingConnection
    \* ---- src/client/mqtt/mqtt_client.py, a program of its own
    mqttPc,          \* where the MQTT script stands
    mqttQos,         \* config['mqtt']['qos']
    mqttPayloadFile, \* the payload file: "ok", "missing", "malformed" or
                     \* "unserialisable" (YAML that json.dumps cannot encode)
    mqttPayload,     \* what create_request returned, or None
    mqttCalls,       \* the paho client calls issued, in order
    mqttSubs,        \* broker: the topics the client is subscribed to
    mqttSent,        \* broker: the messages the client published
    mqttInbox,       \* messages the broker forwarded, not yet handled
    mqttPrinted,     \* number of messages on_message has printed
    mqttExit         \* None while the script runs, then its exit status

rabbitVars == <<cfgFile, payloadFile, pc, conn, chan, rqn, issued, chanUse,
                consumerQueue, death, exchanges, queues, bindings, requests,
                msgs, ready, dropped, deliv, cur, published, interrupted,
                exitStatus, processGone, connAttempted>>
mqttVars == <<mqttPc, mqttQos, mqttPayloadFile, mqttPayload, mqttCalls, mqttSubs,
              mqttSent, mqttInbox, mqttPrinted, mqttExit>>
vars == <<rabbitVars, mqttVars>>

clientVars == <<conn, chan, rqn, issued, chanUse, consumerQueue>>
brokerTopo == <<exchanges, queues, bindings>>
resultVars == <<msgs, ready, dropped, deliv, cur>>
fileVars == <<cfgFile, payloadFile>>

\* ---------------------------------------------------------------- Init
\* mqtt_client.py is not run.
MqttNotRun ==
    /\ mqttPc = "unstarted"
    /\ mqttQos = 0
    /\ mqttPayloadFile = "ok"
    /\ mqttPayload = None
    /\ mqttCalls = <<>>
    /\ mqttSubs = {}
    /\ mqttSent = <<>>
    /\ mqttInbox = <<>>
    /\ mqttPrinted = 0
    /\ mqttExit = None

RabbitInit ==
    /\ cfgFile \in {"ok", "missing", "malformed"}
    /\ payloadFile \in {"ok", "missing"}
    /\ pc = [c \in Ctx |-> IF c = "primary" THEN "load_config" ELSE "unstarted"]
    /\ conn = [c \in Ctx |-> "none"]
    /\ chan = [c \in Ctx |-> "none"]
    /\ rqn = [c \in Ctx |-> NoQueue]
    /\ issued = [c \in Ctx |-> <<>>]
    /\ chanUse = {}
    /\ consumerQueue = NoQueue
    /\ death = [c \in Ctx |-> None]
    /\ exchanges \in [ExchangeNames -> PreExchange]
    /\ queues \in [QueueNames -> PreQueue]
    /\ bindings \in
         IF /\ exchanges[Config.bridge_result.name] # Absent
            /\ queues[ResultQueueName(Config)] # Absent
         THEN {{}, {BindingOf(Config)}}
         ELSE {{}}
    /\ requests = 0
    /\ msgs = <<>>
    /\ ready = <<>>
    /\ dropped = 0
    /\ deliv = <<>>
    /\ cur = 0
    /\ published = <<>>
    /\ interrupted = FALSE
    /\ exitStatus = None
    /\ processGone = FALSE
    /\ connAttempted = {}

\* rabbitmq_client.py is run, mqtt_client.py is not.
Init == RabbitInit /\ MqttNotRun

\* ------------------------------------------------------------- helpers
\* A channel call succeeds only on an open channel of an open connection.
Usable(c) == conn[c] = "open" /\ chan[c] = "open"

\* An exception that leaves thread c outside any try block: in the primary
\* it ends main() with a traceback and a non-zero status, in the listener it
\* ends the thread.
Uncaught(c, why) ==
    /\ death' = [death EXCEPT ![c] = why]
    /\ IF c = "primary"
       THEN /\ pc' = [pc EXCEPT ![c] = "exited"]
            /\ exitStatus' = "1"
       ELSE /\ pc' = [pc EXCEPT ![c] = "dead"]
            /\ UNCHANGED exitStatus

\* An exception caught by main()'s "except Exception": printed, main()
\* returns and the process ends with status 0.
CaughtInMain(why) ==
    /\ death' = [death EXCEPT !["primary"] = why]
    /\ pc' = [pc EXCEPT !["primary"] = "exited"]
    /\ exitStatus' = "0"

\* The RabbitMQClient thread c works with: each thread function builds its
\* own (dt = RabbitMQClient(config), lines 155 and 170) and hands it to
\* nobody else.  A client holds one connection and one channel, so the
\* client names its channel.
ClientOf_Shared(c) == "primary"

ClientOf(c) == c

\* Thread c calls method op on channel ch.
Use(c, ch, op) ==
    chanUse' = chanUse \cup {[thread |-> c, chan |-> ch, op |-> op]}

Goto(c, label) ==
    /\ pc' = [pc EXCEPT ![c] = label]
    /\ UNCHANGED <<death, exitStatus>>

\* DeclareResult of a broker that refuses to declare what exists already.
DeclareResult_NoRedeclare(existing, wanted) ==
    IF existing = Absent THEN "created" ELSE "conflict"

\* DeclareResult with the comparison of the arguments left out.
DeclareResult_Lenient(existing, wanted) ==
    IF existing = Absent THEN "created" ELSE "ok"

\* The broker's answer to a declaration.
DeclareResult(existing, wanted) ==
    IF existing = Absent THEN "created"
    ELSE IF existing = wanted THEN "ok" ELSE "conflict"

\* The tags of the deliveries with no outcome yet, in delivery order.
Tags == 1..Len(deliv)
Unresolved == {t \in Tags : deliv[t].outcome = None /\ ~deliv[t].requeued}

RECURSIVE MsgsOf(_, _)
MsgsOf(t, n) ==
    IF t > n THEN <<>>
    ELSE (IF t \in Unresolved THEN <<deliv[t].msg>> ELSE <<>>) \o MsgsOf(t + 1, n)

\* The broker's reaction to the end of the listener's channel: every
\* delivery without an outcome goes back to the result queue.
RequeueUnresolved ==
    /\ deliv' = [t \in Tags |->
                   IF t \in Unresolved THEN [deliv[t] EXCEPT !.requeued = TRUE]
                   ELSE deliv[t]]
    /\ ready' = MsgsOf(1, Len(deliv)) \o ready

Count(seq, x) == Cardinality({i \in DOMAIN seq : seq[i] = x})

\* ------------------------------------------------------- main(), part 1
\* load_config() (lines 12-22): sys.exit(1) when the file is missing or is
\* not YAML.
LoadConfig ==
    /\ pc["primary"] = "load_config"
    /\ IF cfgFile = "ok"
       THEN Goto("primary", "thread_start")
       ELSE /\ pc' = [pc EXCEPT !["primary"] = "exited"]
            /\ exitStatus' = "1"
            /\ death' = [death EXCEPT !["primary"] = "SystemExit"]
    /\ UNCHANGED <<clientVars, brokerTopo, resultVars, fileVars, mqttVars,
                   requests, published, interrupted, processGone,
                   connAttempted>>

\* listener_thread.start() (lines 164-167).
StartListenerThread ==
    /\ pc["primary"] = "thread_start"
    /\ pc' = [pc EXCEPT !["primary"] = "connect", !["listener"] = "connect"]
    /\ UNCHANGED <<clientVars, brokerTopo, resultVars, fileVars, mqttVars,
                   requests, death, exitStatus, published, interrupted,
                   processGone, connAttempted>>

\* ------------------------------------------- RabbitMQClient.__init__
\* pika.BlockingConnection(parameters) (line 61).
Connect(c) ==
    /\ pc[c] = "connect"
    /\ connAttempted' = connAttempted \cup {c}
    /\ \E ok \in BOOLEAN :
         IF ok
         THEN /\ conn' = [conn EXCEPT ![c] = "open"]
              /\ Goto(c, "channel")
         ELSE /\ Uncaught(c, "AMQPConnectionError")
              /\ UNCHANGED conn
    /\ UNCHANGED <<chan, rqn, consumerQueue, issued, chanUse, brokerTopo,
                   resultVars, fileVars, mqttVars, requests, published,
                   interrupted, processGone>>

\* self.connection.channel() (line 62).
OpenChannel(c) ==
    /\ pc[c] = "channel"
    /\ IF conn[c] = "open"
       THEN /\ chan' = [chan EXCEPT ![c] = "open"]
            /\ Use(c, ClientOf(c), "channel")
            /\ Goto(c, "decl_input")
       ELSE /\ Uncaught(c, "ConnectionLost")
            /\ UNCHANGED <<chan, chanUse>>
    /\ UNCHANGED <<conn, rqn, consumerQueue, issued, brokerTopo, resultVars,
                   fileVars, mqttVars, requests, published, interrupted,
                   processGone, connAttempted>>

\* -------------------------------------------- setup_infrastructure
\* self.channel.exchange_declare(...) for one configured exchange.
ExchangeDeclare(c, ex, step, next) ==
    IF ~Usable(c)
    THEN /\ Uncaught(c, "ConnectionLost")
         /\ UNCHANGED <<chan, issued, chanUse, exchanges>>
    ELSE /\ issued' = [issued EXCEPT ![c] = Append(@, step)]
         /\ Use(c, ClientOf(c), step)
         /\ IF DeclareResult(exchanges[ex.name], ExchangeArgs(ex)) = "conflict"
            THEN /\ chan' = [chan EXCEPT ![c] = "closed"]
                 /\ Uncaught(c, "PreconditionFailed")
                 /\ UNCHANGED exchanges
            ELSE /\ exchanges' = IF exchanges[ex.name] = Absent
                                  THEN [exchanges EXCEPT ![ex.name] = ExchangeArgs(ex)]
                                  ELSE exchanges
                 /\ Goto(c, next)
                 /\ UNCHANGED chan

\* Lines 73-77.
DeclareInputExchange(c) ==
    /\ pc[c] = "decl_input"
    /\ ExchangeDeclare(c, Config.input_bridge, "exchange_declare_input", "decl_result")
    /\ UNCHANGED <<conn, rqn, consumerQueue, queues, bindings, resultVars,
                   fileVars, mqttVars, requests, published, interrupted,
                   processGone, connAttempted>>

\* DeclareResultExchange followed at once by the binding.
DeclareResultExchange_ThenBind(c) ==
    /\ pc[c] = "decl_result"
    /\ ExchangeDeclare(c, Config.bridge_result, "exchange_declare_result", "bind")
    /\ UNCHANGED <<conn, rqn, consumerQueue, queues, bindings, resultVars,
                   fileVars, mqttVars, requests, published, interrupted,
                   processGone, connAttempted>>

\* DeclareResultExchange after which the listener goes on to consume.
DeclareResultExchange_ThenConsume(c) ==
    /\ pc[c] = "decl_result"
    /\ ExchangeDeclare(c, Config.bridge_result, "exchange_declare_result",
                       IF c = "listener" THEN "basic_consume" ELSE "decl_queue")
    /\ UNCHANGED <<conn, rqn, consumerQueue, queues, bindings, resultVars,
                   fileVars, mqttVars, requests, published, interrupted,
                   processGone, connAttempted>>

\* Lines 79-83.
DeclareResultExchange(c) ==
    /\ pc[c] = "decl_result"
    /\ ExchangeDeclare(c, Config.bridge_result, "exchange_declare_result", "decl_queue")
    /\ UNCHANGED <<conn, rqn, consumerQueue, queues, bindings, resultVars,
                   fileVars, mqttVars, requests, published, interrupted,
                   processGone, connAttempted>>

\* Lines 86-91: the queue name is derived, then the queue is declared.
DeclareQueue(c) ==
    /\ pc[c] = "decl_queue"
    /\ rqn' = [rqn EXCEPT ![c] = ResultQueueName(Config)]
    /\ IF ~Usable(c)
       THEN /\ Uncaught(c, "ConnectionLost")
            /\ UNCHANGED <<chan, issued, chanUse, queues>>
       ELSE /\ issued' = [issued EXCEPT ![c] = Append(@, "queue_declare")]
            /\ Use(c, ClientOf(c), "queue_declare")
            /\ IF DeclareResult(queues[ResultQueueName(Config)],
                                QueueArgs(Config.queue)) = "conflict"
               THEN /\ chan' = [chan EXCEPT ![c] = "closed"]
                    /\ Uncaught(c, "PreconditionFailed")
                    /\ UNCHANGED queues
               ELSE /\ queues' = IF queues[ResultQueueName(Config)] = Absent
                                  THEN [queues EXCEPT ![ResultQueueName(Config)] =
                                          QueueArgs(Config.queue)]
                                  ELSE queues
                    /\ Goto(c, "bind")
                    /\ UNCHANGED chan
    /\ UNCHANGED <<conn, consumerQueue, exchanges, bindings, resultVars,
                   fileVars, mqttVars, requests, published, interrupted,
                   processGone, connAttempted>>

\* QueueBindEffect with the queue_bind call left out.
QueueBindEffect_NoBind(b, cfg) == b

\* The bindings after queue_bind(exchange, queue, routing_key).
QueueBindEffect(b, cfg) == b \cup {BindingOf(cfg)}

\* What follows the constructor in each thread: start_listening() in
\* start_dt_listener (line 156), load_yaml_file in main (line 176).
AfterInit(c) == IF c = "primary" THEN "load_payload" ELSE "basic_consume"

\* Lines 92-96.
BindQueue(c) ==
    /\ pc[c] = "bind"
    /\ IF ~Usable(c)
       THEN /\ Uncaught(c, "ConnectionLost")
            /\ UNCHANGED <<issued, chanUse, bindings>>
       ELSE /\ issued' = [issued EXCEPT ![c] = Append(@, "queue_bind")]
            /\ Use(c, ClientOf(c), "queue_bind")
            /\ bindings' = QueueBindEffect(bindings, Config)
            /\ Goto(c, AfterInit(c))
    /\ UNCHANGED <<conn, chan, rqn, consumerQueue, exchanges, queues,
                   resultVars, fileVars, mqttVars, requests, published,
                   interrupted, processGone, connAttempted>>

\* ------------------------------------------------------- main(), part 2
\* dt.load_yaml_file(yaml_file_path) (line 176), inside the try block.
LoadPayload ==
    /\ pc["primary"] = "load_payload"
    /\ IF payloadFile = "ok"
       THEN Goto("primary", "publish")
       ELSE CaughtInMain("FileNotFoundError")
    /\ UNCHANGED <<clientVars, brokerTopo, resultVars, fileVars, mqttVars,
                   requests, published, interrupted, processGone,
                   connAttempted>>

\* Whether c's own setup_infrastructure has run to its end.
SetupDone(c) == Count(issued[c], "queue_bind") > 0

\* Whether the broker holds the result exchange, the result queue and the
\* binding between them.
ResultTopologyExists ==
    /\ exchanges[Config.bridge_result.name] # Absent
    /\ queues[ResultQueueName(Config)] # Absent
    /\ BindingOf(Config) \in bindings

PublishRecord ==
    [conn |-> conn["primary"], chan |-> chan["primary"],
     ownSetup |-> SetupDone("primary"),
     listenerSetup |-> SetupDone("listener"),
     resultTopology |-> ResultTopologyExists]

\* SendSimulationRequest called from inside the wait loop: the primary
\* comes back to it instead of only sleeping.
SendSimulationRequest_InLoop ==
    /\ pc["primary"] = "publish"
    /\ Len(published) < 3
    /\ published' = Append(published, PublishRecord)
    /\ IF Usable("primary")
       THEN /\ issued' = [issued EXCEPT !["primary"] = Append(@, "basic_publish")]
            /\ Use("primary", ClientOf("primary"), "basic_publish")
            /\ requests' = requests + 1
            /\ Goto("primary", "publish")
       ELSE /\ CaughtInMain("ConnectionLost")
            /\ UNCHANGED <<issued, chanUse, requests>>
    /\ UNCHANGED <<conn, chan, rqn, consumerQueue, brokerTopo, resultVars,
                   fileVars, mqttVars, interrupted, processGone,
                   connAttempted>>

\* send_simulation_request (lines 98-116), inside the try block.
SendSimulationRequest ==
    /\ pc["primary"] = "publish"
    /\ published' = Append(published, PublishRecord)
    /\ IF Usable("primary")
       THEN /\ issued' = [issued EXCEPT !["primary"] = Append(@, "basic_publish")]
            /\ Use("primary", ClientOf("primary"), "basic_publish")
            /\ requests' = requests + 1
            /\ Goto("primary", "wait")
       ELSE /\ CaughtInMain("ConnectionLost")
            /\ UNCHANGED <<issued, chanUse, requests>>
    /\ UNCHANGED <<conn, chan, rqn, consumerQueue, brokerTopo, resultVars,
                   fileVars, mqttVars, interrupted, processGone,
                   connAttempted>>

\* Lines in main() that lie inside the try block (175-181).
InTry(label) == label \in {"load_payload", "publish", "wait"}

\* The interrupt signal: KeyboardInterrupt raised in the primary thread.
\* Inside the try block it is caught (line 183) and main() returns; anywhere
\* else it is uncaught.
Interrupt ==
    /\ ~interrupted
    /\ pc["primary"] # "exited"
    /\ interrupted' = TRUE
    /\ pc' = [pc EXCEPT !["primary"] = "exited"]
    /\ exitStatus' = IF InTry(pc["primary"]) THEN "0" ELSE "1"
    /\ death' = [death EXCEPT !["primary"] = "KeyboardInterrupt"]
    /\ UNCHANGED <<clientVars, brokerTopo, resultVars, fileVars, mqttVars,
                   requests, published, processGone, connAttempted>>

\* The interpreter exits once main() is over.  The listener is a daemon
\* thread (line 166): it is not joined and ends wherever it stands; the
\* sockets are closed by the operating system and the broker requeues what
\* was delivered and has no outcome.
ProcessExit ==
    /\ pc["primary"] = "exited"
    /\ ~processGone
    /\ processGone' = TRUE
    /\ pc' = [pc EXCEPT !["listener"] =
                IF @ \in {"unstarted", "dead"} THEN @ ELSE "killed"]
    /\ conn' = [c \in Ctx |-> IF conn[c] = "none" THEN "none" ELSE "closed"]
    /\ chan' = [c \in Ctx |-> IF chan[c] = "none" THEN "none" ELSE "closed"]
    /\ RequeueUnresolved
    /\ UNCHANGED <<rqn, consumerQueue, issued, chanUse, death, brokerTopo,
                   msgs, dropped, cur, fileVars, mqttVars, requests, published,
                   interrupted, exitStatus, connAttempted>>

\* ------------------------------------------------------- environment
\* The connection of c is lost (network failure, broker shutdown).
LoseConnection(c) ==
    /\ conn[c] = "open"
    /\ ~processGone
    /\ conn' = [conn EXCEPT ![c] = "lost"]
    /\ chan' = [chan EXCEPT ![c] = IF @ = "none" THEN "none" ELSE "closed"]
    /\ IF c = "listener" THEN RequeueUnresolved ELSE UNCHANGED <<deliv, ready>>
    /\ UNCHANGED <<pc, rqn, consumerQueue, issued, chanUse, death, brokerTopo,
                   msgs, dropped, cur, fileVars, mqttVars, requests, published,
                   interrupted, exitStatus, processGone, connAttempted>>

\* The bridge answers a request with a result published to the result
\* exchange; the broker routes it to the bound queue or drops it.
BridgePublishesResult ==
    /\ requests > 0
    /\ Len(msgs) < MaxResults
    /\ \E body \in {"ok", "malformed"}, key \in RoutingKeys :
         /\ msgs' = Append(msgs, [body |-> body, routing_key |-> key])
         /\ IF ResultTopologyExists
            THEN /\ ready' = Append(ready, Len(msgs) + 1)
                 /\ UNCHANGED dropped
            ELSE /\ dropped' = dropped + 1
                 /\ UNCHANGED ready
    /\ UNCHANGED <<pc, clientVars, death, brokerTopo, deliv, cur, fileVars,
                   mqttVars, requests, published, interrupted, exitStatus,
                   processGone, connAttempted>>

\* ------------------------------------------------- start_listening
\* self.channel.basic_consume(queue=self.result_queue_name, ...) (139-142).
BasicConsume ==
    /\ pc["listener"] = "basic_consume"
    /\ IF Usable("listener")
       THEN /\ issued' = [issued EXCEPT !["listener"] = Append(@, "basic_consume")]
            /\ Use("listener", ClientOf("listener"), "basic_consume")
            /\ consumerQueue' = rqn["listener"]
            /\ Goto("listener", "consuming")
       ELSE /\ Uncaught("listener", "ConnectionLost")
            /\ UNCHANGED <<issued, chanUse, consumerQueue>>
    /\ UNCHANGED <<conn, chan, rqn, brokerTopo, resultVars, fileVars, mqttVars,
                   requests, published, interrupted, processGone,
                   connAttempted>>

\* The channels a consumer was registered on.
ConsumerChannels == {u.chan : u \in {k \in chanUse : k.op = "basic_consume"}}

\* self.channel.start_consuming() (line 144) takes the next delivery of the
\* consumed queue and calls handle_result with it; pika passes the channel
\* the consumer was registered on as handle_result's channel argument.
Deliver ==
    /\ pc["listener"] = "consuming"
    /\ Usable("listener")
    /\ ready # <<>>
    /\ Len(deliv) < MaxTag
    /\ \E ch \in ConsumerChannels :
         deliv' = Append(deliv, [msg |-> Head(ready), chan |-> ch,
                                 source |-> <<>>, log |-> <<>>, outcome |-> None,
                                 requeued |-> FALSE, ended |-> None])
    /\ ready' = Tail(ready)
    /\ cur' = Len(deliv) + 1
    /\ Goto("listener", "hr_load")
    /\ UNCHANGED <<clientVars, brokerTopo, msgs, dropped, fileVars, mqttVars,
                   requests, published, interrupted, processGone,
                   connAttempted>>

\* start_consuming() raises once the connection is gone; nothing in
\* start_dt_listener catches it.
StartConsumingRaises ==
    /\ pc["listener"] = "consuming"
    /\ ~Usable("listener")
    /\ Uncaught("listener", "ConnectionLost")
    /\ UNCHANGED <<clientVars, brokerTopo, resultVars, fileVars, mqttVars,
                   requests, published, interrupted, processGone,
                   connAttempted>>

\* --------------------------------------------------- handle_result
Logged(ev) == deliv' = [deliv EXCEPT ![cur].log = Append(@, ev)]

\* handle_result returns to the consume loop.
Returned(d) == [d EXCEPT ![cur].ended = "returned"]
\* An exception leaves handle_result, hence start_consuming and the thread.
Raised(d) == [d EXCEPT ![cur].ended = "raised"]

\* str.split(sep): the segments of key between the occurrences of sep.
RECURSIVE Split(_, _)
Split(key, sep) ==
    IF \A i \in DOMAIN key : key[i] # sep
    THEN <<key>>
    ELSE LET i == CHOOSE i \in DOMAIN key :
                    key[i] = sep /\ \A j \in 1..(i - 1) : key[j] # sep
         IN <<SubSeq(key, 1, i - 1)>> \o Split(SubSeq(key, i + 1, Len(key)), sep)

\* SourceOf taking the last segment of the routing key.
SourceOf_LastSegment(key) == Split(key, ".")[Len(Split(key, "."))]

\* Line 121: source = method.routing_key.split('.')[0].
SourceOf(key) == Split(key, ".")[1]

\* HrLoad with the acknowledgment placed before the presentation.
HrLoad_AckFirst ==
    /\ pc["listener"] = "hr_load"
    /\ deliv' = [deliv EXCEPT ![cur].source = SourceOf(msgs[deliv[cur].msg].routing_key)]
    /\ IF msgs[deliv[cur].msg].body = "ok"
       THEN Goto("listener", "hr_ack")
       ELSE Goto("listener", "hr_yaml_print")
    /\ UNCHANGED <<clientVars, brokerTopo, msgs, ready, dropped, cur, fileVars,
                   mqttVars, requests, published, interrupted, processGone,
                   connAttempted>>

\* Lines 121-122: the origin is split off, the body is parsed.
HrLoad ==
    /\ pc["listener"] = "hr_load"
    /\ deliv' = [deliv EXCEPT ![cur].source = SourceOf(msgs[deliv[cur].msg].routing_key)]
    /\ IF msgs[deliv[cur].msg].body = "ok"
       THEN Goto("listener", "hr_present")
       ELSE Goto("listener", "hr_yaml_print")
    /\ UNCHANGED <<clientVars, brokerTopo, msgs, ready, dropped, cur, fileVars,
                   mqttVars, requests, published, interrupted, processGone,
                   connAttempted>>

\* Lines 124-126: the three prints that present the result; a print may
\* raise (an unencodable character, a closed stdout).
HrPresent ==
    /\ pc["listener"] = "hr_present"
    /\ \E ok \in BOOLEAN :
         IF ok
         THEN /\ Logged("present")
              /\ Goto("listener", "hr_ack")
         ELSE /\ Logged("present_failed")
              /\ Goto("listener", "hr_exc_print")
    /\ UNCHANGED <<clientVars, brokerTopo, msgs, ready, dropped, cur, fileVars,
                   mqttVars, requests, published, interrupted, processGone,
                   connAttempted>>

\* Line 128: channel.basic_ack(method.delivery_tag), still inside the try
\* block: when it raises, the "except Exception" branch runs.
HrAck ==
    /\ pc["listener"] = "hr_ack"
    /\ IF Usable("listener")
       THEN /\ deliv' = Returned([deliv EXCEPT ![cur].log = Append(@, "basic_ack"),
                                               ![cur].outcome = "acked"])
            /\ cur' = 0
            /\ Goto("listener", "consuming")
       ELSE /\ Logged("basic_ack")
            /\ Goto("listener", "hr_exc_print")
            /\ UNCHANGED cur
    /\ Use("listener", deliv[cur].chan, "basic_ack")
    /\ UNCHANGED <<conn, chan, rqn, consumerQueue, issued, brokerTopo, msgs,
                   ready, dropped, fileVars, mqttVars, requests, published,
                   interrupted, processGone, connAttempted>>

\* Lines 131 and 134: the diagnostic print of an except branch.  It stands
\* before the basic_nack and inside no try block: when it raises, the
\* exception leaves handle_result.
HrErrorPrint(at, next) ==
    /\ pc["listener"] = at
    /\ \E ok \in BOOLEAN :
         IF ok
         THEN /\ Logged("error_print")
              /\ Goto("listener", next)
              /\ UNCHANGED cur
         ELSE /\ deliv' = Raised([deliv EXCEPT ![cur].log = Append(@, "error_print_failed")])
              /\ cur' = 0
              /\ Uncaught("listener", "PrintError")
    /\ UNCHANGED <<clientVars, brokerTopo, msgs, ready, dropped, fileVars,
                   mqttVars, requests, published, interrupted, processGone,
                   connAttempted>>

HrYamlErrorPrint == HrErrorPrint("hr_yaml_print", "hr_yaml_nack")
HrExceptionPrint == HrErrorPrint("hr_exc_print", "hr_exc_nack")

\* basic_nack is called with the delivery tag alone (lines 132, 135): pika's
\* requeue parameter keeps its default, True.
NackRequeue == TRUE

\* The broker's handling of basic.nack for delivery t.
BrokerNack(d, q, t, requeue) ==
    [deliv |-> [d EXCEPT ![t].outcome = "rejected", ![t].requeued = requeue],
     ready |-> IF requeue THEN <<d[t].msg>> \o q ELSE q]

\* Lines 132 and 135: channel.basic_nack(method.delivery_tag).
HrNack(at) ==
    /\ pc["listener"] = at
    /\ IF Usable("listener")
       THEN LET b == BrokerNack([deliv EXCEPT ![cur].log = Append(@, "basic_nack")],
                                ready, cur, NackRequeue)
            IN /\ deliv' = Returned(b.deliv)
               /\ ready' = b.ready
               /\ Goto("listener", "consuming")
       ELSE /\ deliv' = Raised([deliv EXCEPT ![cur].log = Append(@, "basic_nack")])
            /\ Uncaught("listener", "ChannelWrongState")
            /\ UNCHANGED ready
    /\ cur' = 0
    /\ Use("listener", deliv[cur].chan, "basic_nack")
    /\ UNCHANGED <<conn, chan, rqn, consumerQueue, issued, brokerTopo, msgs,
                   dropped, fileVars, mqttVars, requests, published,
                   interrupted, processGone, connAttempted>>

HrYamlNack == HrNack("hr_yaml_nack")
HrExceptionNack == HrNack("hr_exc_nack")

\* ------------------------------------------------------------- Next
Next ==
    \/ LoadConfig
    \/ StartListenerThread
    \/ \E c \in Ctx : Connect(c)
    \/ \E c \in Ctx : OpenChannel(c)
    \/ \E c \in Ctx : DeclareInputExchange(c)
    \/ \E c \in Ctx : DeclareResultExchange(c)
    \/ \E c \in Ctx : DeclareQueue(c)
    \/ \E c \in Ctx : BindQueue(c)
    \/ LoadPayload
    \/ SendSimulationRequest
    \/ Interrupt
    \/ ProcessExit
    \/ \E c \in Ctx : LoseConnection(c)
    \/ BridgePublishesResult
    \/ BasicConsume
    \/ Deliver
    \/ StartConsumingRaises
    \/ HrLoad
    \/ HrPresent
    \/ HrAck
    \/ HrYamlErrorPrint
    \/ HrYamlNack
    \/ HrExceptionPrint
    \/ HrExceptionNack

Spec == Init /\ [][Next]_vars

\* The steps of the primary thread, of the listener thread (with pika's
\* dispatch of the next delivery), and the interpreter's exit.
PrimaryStep ==
    \/ LoadConfig
    \/ StartListenerThread
    \/ Connect("primary")
    \/ OpenChannel("primary")
    \/ DeclareInputExchange("primary")
    \/ DeclareResultExchange("primary")
    \/ DeclareQueue("primary")
    \/ BindQueue("primary")
    \/ LoadPayload
    \/ SendSimulationRequest

ListenerStep ==
    \/ Connect("listener")
    \/ OpenChannel("listener")
    \/ DeclareInputExchange("listener")
    \/ DeclareResultExchange("listener")
    \/ DeclareQueue("listener")
    \/ BindQueue("listener")
    \/ BasicConsume
    \/ Deliver
    \/ StartConsumingRaises
    \/ HrLoad
    \/ HrPresent
    \/ HrAck
    \/ HrYamlErrorPrint
    \/ HrYamlNack
    \/ HrExceptionPrint
    \/ HrExceptionNack

\* Both threads are scheduled by the operating system and neither can be
\* held back for ever; the interpreter exits once main() is over.  The
\* interrupt, the loss of a connection and the bridge's results are not
\* forced to happen.
FairSpec ==
    /\ Init /\ [][Next]_vars
    /\ WF_vars(PrimaryStep)
    /\ WF_vars(ListenerStep)
    /\ WF_vars(ProcessExit)

\* =================================================== mqtt_client.py
\* The settings read from mqtt_use.yaml (config['mqtt']).
MqttConfig == [input_topic |-> "bridge/input", output_topic |-> "bridge/output"]

\* The run of mqtt_client.py starts in connect_and_listen with the client
\* built; the payload file and the configured qos are inputs.
MqttStart ==
    /\ mqttPc = "connect"
    /\ mqttQos \in {0, 1, 2}
    /\ mqttPayloadFile \in {"ok", "missing", "malformed", "unserialisable"}
    /\ mqttPayload = None
    /\ mqttCalls = <<>>
    /\ mqttSubs = {}
    /\ mqttSent = <<>>
    /\ mqttInbox = <<>>
    /\ mqttPrinted = 0
    /\ mqttExit = None

\* rabbitmq_client.py is not run: its variables keep one initial value.
RabbitNotRun ==
    /\ RabbitInit
    /\ cfgFile = "ok"
    /\ payloadFile = "ok"
    /\ \A n \in ExchangeNames : exchanges[n] = Absent
    /\ \A q \in QueueNames : queues[q] = Absent

MqttInit == RabbitNotRun /\ MqttStart

\* The script ends with a non-zero status: sys.exit(1) or an uncaught
\* exception.
MqttFail ==
    /\ mqttPc' = "exited"
    /\ mqttExit' = "1"

\* self.client.connect(host, port, keepalive) (lines 94-98); it raises when
\* the broker cannot be reached.
MqttConnect ==
    /\ mqttPc = "connect"
    /\ mqttCalls' = Append(mqttCalls, "connect")
    /\ \E ok \in BOOLEAN :
         IF ok THEN mqttPc' = "subscribe" /\ UNCHANGED mqttExit
         ELSE MqttFail
    /\ UNCHANGED <<rabbitVars, mqttQos, mqttPayloadFile, mqttPayload, mqttSubs,
                   mqttSent, mqttInbox, mqttPrinted>>

\* self.client.subscribe(output_topic, qos) (lines 101-103).
MqttSubscribe ==
    /\ mqttPc = "subscribe"
    /\ mqttCalls' = Append(mqttCalls, "subscribe")
    /\ mqttSubs' = mqttSubs \cup {MqttConfig.output_topic}
    /\ mqttPc' = "create_request"
    /\ UNCHANGED <<rabbitVars, mqttQos, mqttPayloadFile, mqttPayload, mqttSent,
                   mqttInbox, mqttPrinted, mqttExit>>

\* What yaml.safe_load gives for the payload file.
LoadedPayload(file) == IF file = "ok" THEN "request" ELSE "timestamp"

\* CreateRequest that returns None instead of leaving the script when the
\* file cannot be loaded.
MqttCreateRequest_Swallow ==
    /\ mqttPc = "create_request"
    /\ IF mqttPayloadFile \in {"ok", "unserialisable"}
       THEN mqttPayload' = LoadedPayload(mqttPayloadFile)
       ELSE mqttPayload' = "null"
    /\ mqttPc' = "publish"
    /\ UNCHANGED <<rabbitVars, mqttQos, mqttPayloadFile, mqttCalls, mqttSubs,
                   mqttSent, mqttInbox, mqttPrinted, mqttExit>>

\* create_request (lines 70-90): the file is opened and parsed and the
\* payload printed inside the try block; any exception, the print's
\* included, ends in sys.exit(1).
MqttCreateRequest ==
    /\ mqttPc = "create_request"
    /\ \E printed \in BOOLEAN :
         IF mqttPayloadFile \in {"ok", "unserialisable"} /\ printed
         THEN /\ mqttPayload' = LoadedPayload(mqttPayloadFile)
              /\ mqttPc' = "publish"
              /\ UNCHANGED mqttExit
         ELSE /\ MqttFail
              /\ UNCHANGED mqttPayload
    /\ UNCHANGED <<rabbitVars, mqttQos, mqttPayloadFile, mqttCalls, mqttSubs,
                   mqttSent, mqttInbox, mqttPrinted>>

\* Whether json.dumps can encode the payload.
JsonSerialisable(p) == p \in {"request", "null"}

\* json.dumps(payload): the text sent on the wire.
JsonDumps(p) == <<"json", p>>

\* self.client.publish(input_topic, json.dumps(payload), qos) (lines
\* 107-111): json.dumps is evaluated first and raises TypeError on a value
\* it cannot encode; then publish is not called.
MqttPublish ==
    /\ mqttPc = "publish"
    /\ IF JsonSerialisable(mqttPayload)
       THEN /\ mqttCalls' = Append(mqttCalls, "publish")
            /\ mqttSent' = Append(mqttSent, [topic |-> MqttConfig.input_topic,
                                             payload |-> JsonDumps(mqttPayload),
                                             qos |-> mqttQos])
            /\ mqttPc' = "listen"
            /\ UNCHANGED mqttExit
       ELSE /\ MqttFail
            /\ UNCHANGED <<mqttCalls, mqttSent>>
    /\ UNCHANGED <<rabbitVars, mqttQos, mqttPayloadFile, mqttPayload, mqttSubs,
                   mqttInbox, mqttPrinted>>

\* self.client.loop_forever() (line 117).
MqttLoopForever ==
    /\ mqttPc = "listen"
    /\ mqttCalls' = Append(mqttCalls, "loop_forever")
    /\ mqttPc' = "loop"
    /\ UNCHANGED <<rabbitVars, mqttQos, mqttPayloadFile, mqttPayload, mqttSubs,
                   mqttSent, mqttInbox, mqttPrinted, mqttExit>>

\* The broker forwards a message published on a subscribed topic.
MqttBrokerForwards ==
    /\ MqttConfig.output_topic \in mqttSubs
    /\ mqttPc # "exited"
    /\ Len(mqttInbox) + mqttPrinted < MaxMqttMsgs
    /\ \E body \in {"result", "progress"} :
         mqttInbox' = Append(mqttInbox, [topic |-> MqttConfig.output_topic,
                                         payload |-> body])
    /\ UNCHANGED <<rabbitVars, mqttPc, mqttQos, mqttPayloadFile, mqttPayload,
                   mqttCalls, mqttSubs, mqttSent, mqttPrinted, mqttExit>>

\* on_message (lines 58-68), called from the receive loop.
MqttOnMessage ==
    /\ mqttPc = "loop"
    /\ mqttInbox # <<>>
    /\ mqttInbox' = Tail(mqttInbox)
    /\ mqttPrinted' = mqttPrinted + 1
    /\ UNCHANGED <<rabbitVars, mqttPc, mqttQos, mqttPayloadFile, mqttPayload,
                   mqttCalls, mqttSubs, mqttSent, mqttExit>>

\* CTRL+C: KeyboardInterrupt is caught nowhere in the script.
MqttInterrupt ==
    /\ mqttPc # "exited"
    /\ MqttFail
    /\ UNCHANGED <<rabbitVars, mqttQos, mqttPayloadFile, mqttPayload,
                   mqttCalls, mqttSubs, mqttSent, mqttInbox, mqttPrinted>>

MqttNext ==
    \/ MqttConnect
    \/ MqttSubscribe
    \/ MqttCreateRequest
    \/ MqttPublish
    \/ MqttLoopForever
    \/ MqttBrokerForwards
    \/ MqttOnMessage
    \/ MqttInterrupt

MqttSpec == MqttInit /\ [][MqttNext]_vars

\* ============================================================== claims
Ended == {t \in Tags : deliv[t].ended # None}
Acks(t) == Count(deliv[t].log, "basic_ack")
Nacks(t) == Count(deliv[t].log, "basic_nack")
BodyOk(t) == msgs[deliv[t].msg].body = "ok"
Has(t, ev) == Count(deliv[t].log, ev) > 0
Precedes(t, a, b) ==
    \A j \in DOMAIN deliv[t].log :
        deliv[t].log[j] = b => \E i \in 1..(j - 1) : deliv[t].log[i] = a

\* C1: for every delivery handle_result has finished with, on every path,
\* exactly one outcome call (one basic_ack or one basic_nack) was issued
\* for its delivery tag.
C1_ExactlyOneOutcomeCall ==
    \A t \in Ended : Acks(t) + Nacks(t) = 1

\* C2 as stated: a delivery whose body deserializes is presented exactly
\* once, then acknowledged exactly once and never rejected.
C2_ParsedIsPresentedThenAcked ==
    \A t \in Ended :
        BodyOk(t) =>
            /\ Count(deliv[t].log, "present") = 1
            /\ Acks(t) = 1
            /\ Nacks(t) = 0
            /\ deliv[t].outcome = "acked"
            /\ Precedes(t, "present", "basic_ack")

\* C2 amended: a delivery whose body deserializes and whose presentation
\* succeeds is presented exactly once; basic_ack is issued for it exactly
\* once and only after the presentation; when handle_result returns, the
\* recorded outcome is Acknowledged and no basic_nack was issued, and a
\* Rejected outcome is recorded for it in no case.  No basic_ack is issued
\* for a delivery that was not presented.
C2_PresentedThenAcked ==
    \A t \in Tags :
        /\ Precedes(t, "present", "basic_ack")
        /\ (BodyOk(t) /\ Has(t, "present")) =>
              /\ Count(deliv[t].log, "present") = 1
              /\ Acks(t) <= 1
              /\ deliv[t].outcome # "rejected"
              /\ (deliv[t].ended # None => Acks(t) = 1)
              /\ (deliv[t].ended = "returned" =>
                     deliv[t].outcome = "acked" /\ Nacks(t) = 0)

\* C2 witness: a well-formed result has been presented and acknowledged.
C2_Witness ==
    \E t \in Tags :
        /\ BodyOk(t)
        /\ deliv[t].log = <<"present", "basic_ack">>
        /\ deliv[t].outcome = "acked"
        /\ deliv[t].ended = "returned"

\* C3: a delivery whose body fails to deserialize, or whose presentation
\* fails, gets exactly one Rejected outcome and no Acknowledged one, and
\* the exception does not leave the callback (the listener goes on
\* consuming) -- stated for a listener whose connection is up.
C3_FailedIsRejectedLoopGoesOn ==
    \A t \in Ended :
        (/\ ~BodyOk(t) \/ Has(t, "present_failed")
         /\ Usable("listener")) =>
            /\ Nacks(t) = 1
            /\ Acks(t) = 0
            /\ deliv[t].outcome = "rejected"
            /\ deliv[t].ended = "returned"
            /\ pc["listener"] # "dead"

\* C4: a rejected delivery is not requeued: its message is not back on the
\* result queue and is never delivered again.
C4_RejectedIsNotRequeued ==
    \A t \in Tags :
        deliv[t].outcome = "rejected" =>
            /\ ~deliv[t].requeued
            /\ \A i \in DOMAIN ready : ready[i] # deliv[t].msg
            /\ \A u \in Tags : u > t => deliv[u].msg # deliv[t].msg

\* C5: whenever the primary calls basic_publish, the listener's
\* setup_infrastructure has run through queue_bind.
C5_ListenerSetupBeforePublish ==
    \A i \in DOMAIN published : published[i].listenerSetup

\* C6: whenever the primary calls basic_publish, the result exchange, the
\* result queue and their binding exist on the broker, they still exist
\* while the request is out, and no result is dropped for lack of a queue.
C6_ResultTopologyAtPublish ==
    /\ \A i \in DOMAIN published : published[i].resultTopology
    /\ requests > 0 => ResultTopologyExists
    /\ dropped = 0

\* C6 witness: the request was published before the listener had bound
\* its queue, and a result published then was routed to the queue.
C6_Witness ==
    /\ Len(published) = 1
    /\ ~published[1].listenerSetup
    /\ ~SetupDone("listener")
    /\ Len(msgs) > 0
    /\ ready # <<>>

\* C7: once the interrupt has ended the process, the listener's connection
\* is closed and every delivery handed to the listener has an outcome.
C7_InterruptLeavesNoDeliveryOpen ==
    (interrupted /\ processGone) =>
        /\ conn["listener"] \in {"none", "closed"}
        /\ \A t \in Tags : deliv[t].outcome # None

\* The channel calls of setup_infrastructure, in the order of the code.
PrimarySetupCalls ==
    <<"exchange_declare_input", "exchange_declare_result", "queue_declare",
      "queue_bind">>

HasConflict ==
    \/ \E ex \in {Config.input_bridge, Config.bridge_result} :
          exchanges[ex.name] \notin {Absent, ExchangeArgs(ex)}
    \/ queues[ResultQueueName(Config)] \notin {Absent, QueueArgs(Config.queue)}

Started(c) == pc[c] \notin {"load_config", "thread_start", "unstarted", "connect",
                            "channel", "decl_input", "decl_result", "decl_queue",
                            "bind", "exited", "dead", "killed"}

\* C9: with a conflicting entity on the broker no thread gets past
\* setup_infrastructure and no request is ever published; the thread that
\* meets the conflict ends with the error, the primary with a non-zero
\* status.
C9_ConflictAbortsStartup ==
    HasConflict =>
        /\ published = <<>>
        /\ requests = 0
        /\ \A c \in Ctx :
              /\ ~Started(c)
              /\ ~SetupDone(c)
              /\ death[c] = "PreconditionFailed" => chan[c] = "closed"
        /\ death["primary"] = "PreconditionFailed" => exitStatus = "1"

\* C9 witness: both threads met the conflict on the queue, after having
\* declared both exchanges.
C9_Witness ==
    /\ HasConflict
    /\ \A c \in Ctx :
          /\ death[c] = "PreconditionFailed"
          /\ Len(issued[c]) = 3
    /\ exitStatus = "1"

\* C10: with the configuration file missing or malformed, or the payload
\* file missing, no thread ever attempts a broker connection and the
\* process ends with a non-zero status.
C10_ConfigErrorIsFatalBeforeConnect ==
    (cfgFile # "ok" \/ payloadFile = "missing") =>
        /\ connAttempted = {}
        /\ (exitStatus # None /\ ~interrupted) => exitStatus # "0"

\* C11: when the listener thread has failed, the primary does not stay
\* blocked in its wait for ever with no listener running: again and again
\* it is not the case that the listener is dead and the primary waits.
C11_ListenerFailureDoesNotHangPrimary ==
    []<>~(pc["listener"] = "dead" /\ pc["primary"] = "wait")

\* C12: every channel call is made by the thread that created the channel;
\* requests are published only on the channel the primary created, and
\* basic_ack / basic_nack are called only on the channel the listener
\* created and registered its consumer on.
Creators(ch) == {k.thread : k \in {u \in chanUse : u.op = "channel" /\ u.chan = ch}}

C12_ChannelsAreThreadConfined ==
    \A u \in chanUse :
        /\ Creators(u.chan) = {u.thread}
        /\ u.op = "basic_publish" => Creators(u.chan) = {"primary"}
        /\ u.op \in {"basic_ack", "basic_nack"} =>
              /\ Creators(u.chan) = {"listener"}
              /\ u.chan \in ConsumerChannels

C12_Witness ==
    /\ \E u \in chanUse : u.op = "basic_publish"
    /\ \E u \in chanUse : u.op = "basic_ack"
    /\ \E u \in chanUse : u.op = "basic_nack"
    /\ \E u \in chanUse : u.op = "queue_bind" /\ u.thread = "listener"
    /\ \E u \in chanUse : u.op = "queue_bind" /\ u.thread = "primary"

\* C13: setup_infrastructure is idempotent.  Once one run of it has come to
\* its end, a further run with the same configuration, in the same or the
\* other thread and whatever the interleaving of their steps, changes no
\* exchange, queue or binding of the broker and raises no declaration error.
C13_SetupIsIdempotent ==
    [][(\E c \in Ctx : SetupDone(c)) =>
          /\ UNCHANGED brokerTopo
          /\ \A c \in Ctx : death'[c] # "PreconditionFailed"]_vars

\* Both threads have run setup_infrastructure to its end and the broker
\* holds exactly the configured topology.
C13_Witness ==
    /\ \A c \in Ctx : SetupDone(c)
    /\ exchanges = [n \in ExchangeNames |->
                      IF n = Config.input_bridge.name
                      THEN ExchangeArgs(Config.input_bridge)
                      ELSE ExchangeArgs(Config.bridge_result)]
    /\ queues[ResultQueueName(Config)] = QueueArgs(Config.queue)
    /\ bindings = {BindingOf(Config)}

\* The m-th result carries a well-formed body.
MsgOk(m) == msgs[m].body = "ok"

\* C14: a malformed result never blocks a well-formed one that reaches the
\* result queue after it.  Stated on finite runs: when handle_result is
\* through with a malformed delivery while the listener's connection is up
\* and the process runs, and a well-formed result published after it waits
\* in the result queue, then the handling has returned to the consume loop
\* (which is what lets the waiting result be delivered, presented and
\* acknowledged).
C14_MalformedNeverBlocksWellFormed ==
    \A t \in Ended :
        (/\ ~MsgOk(deliv[t].msg)
         /\ Usable("listener")
         /\ ~processGone
         /\ \E i \in DOMAIN ready : MsgOk(ready[i]) /\ ready[i] > deliv[t].msg) =>
            /\ deliv[t].ended = "returned"
            /\ pc["listener"] # "dead"

\* The longest prefix of key that holds no dot: the whole key when it has no
\* dot, else what stands before its first dot.
FirstSegment(key) ==
    LET n == CHOOSE n \in 0..Len(key) :
                 /\ \A j \in 1..n : key[j] # "."
                 /\ n = Len(key) \/ key[n + 1] = "."
    IN SubSeq(key, 1, n)

KeyOf(t) == msgs[deliv[t].msg].routing_key

\* C15: the origin handle_result presents for a delivery is the first
\* dot-delimited segment of its routing key (the whole key when it has no
\* dot).  What follows the first dot influences neither the origin nor the
\* outcome: whatever the key, a delivery is acknowledged only when its
\* body is well-formed and was presented, and with the connection up a
\* well-formed, presented delivery is acknowledged.
C15_OriginIsFirstSegment ==
    \A t \in Tags :
        /\ Has(t, "present") => deliv[t].source = FirstSegment(KeyOf(t))
        /\ deliv[t].outcome = "acked" => BodyOk(t) /\ Has(t, "present")
        /\ (t \in Ended /\ Has(t, "present") /\ Usable("listener")) =>
              deliv[t].outcome = "acked"

\* Presented deliveries of a key without a dot, of a key with one dot and
\* of a key with two dots, the last two presented with different origins.
C15_Witness ==
    \E t \in Tags, u \in Tags :
        /\ Has(t, "present") /\ Has(u, "present")
        /\ Len(KeyOf(t)) = 3 /\ deliv[t].source = <<"a">>
        /\ Len(KeyOf(u)) = 5 /\ deliv[u].source = <<"b">>
        /\ deliv[t].outcome = "acked"

\* The position of the first call named op among those c has issued, or 0.
FirstAt(c, op) ==
    IF Count(issued[c], op) = 0 THEN 0
    ELSE CHOOSE i \in DOMAIN issued[c] :
             issued[c][i] = op /\ \A j \in 1..(i - 1) : issued[c][j] # op

\* C16: on each channel the calls of setup_infrastructure are issued in the
\* order exchange declarations, queue declaration, binding, each once:
\* the queue is declared only after both exchanges, and queue_bind is
\* issued only after the result exchange and the result queue have been
\* declared on that channel.
C16_SetupOrder ==
    \A c \in Ctx :
        /\ \A op \in {"exchange_declare_input", "exchange_declare_result",
                       "queue_declare", "queue_bind"} : Count(issued[c], op) <= 1
        /\ FirstAt(c, "queue_declare") > 0 =>
              /\ 0 < FirstAt(c, "exchange_declare_input")
              /\ FirstAt(c, "exchange_declare_input") < FirstAt(c, "exchange_declare_result")
              /\ FirstAt(c, "exchange_declare_result") < FirstAt(c, "queue_declare")
        /\ FirstAt(c, "queue_bind") > 0 =>
              /\ 0 < FirstAt(c, "exchange_declare_result")
              /\ FirstAt(c, "exchange_declare_result") < FirstAt(c, "queue_bind")
              /\ 0 < FirstAt(c, "queue_declare")
              /\ FirstAt(c, "queue_declare") < FirstAt(c, "queue_bind")

\* Both channels have seen a whole setup_infrastructure, the binding as
\* the fourth call of each.
C16_Witness ==
    /\ \A c \in Ctx : FirstAt(c, "queue_bind") = 4
    /\ pc["primary"] = "load_payload"
    /\ pc["listener"] = "consuming"

\* C17: the listener brings its stack up in the order connection, channel,
\* topology, consumer.  It has a channel only after it opened a connection,
\* issues channel calls only after it created the channel, and when it has
\* issued basic_consume the queue named in the call is
\* {result_queue_prefix}.{identity}.result, the calls before it on the
\* listener's channel were the whole setup_infrastructure, and the broker
\* holds that queue and its binding to the result exchange.
C17_ListenerStackOrder ==
    /\ chan["listener"] # "none" => "listener" \in connAttempted
    /\ issued["listener"] # <<>> =>
          [thread |-> "listener", chan |-> ClientOf("listener"), op |-> "channel"]
              \in chanUse
    /\ Count(issued["listener"], "basic_consume") > 0 =>
          /\ consumerQueue =
                <<Config.queue.result_queue_prefix, Config.dt_id, "result">>
          /\ issued["listener"] =
                <<"exchange_declare_input", "exchange_declare_result",
                  "queue_declare", "queue_bind", "basic_consume">>
          /\ queues[consumerQueue] # Absent
          /\ [exchange |-> Config.bridge_result.name, queue |-> consumerQueue,
              routing_key |-> Config.queue.routing_key] \in bindings

\* The listener consumes from its result queue.
C17_Witness ==
    /\ pc["listener"] = "consuming"
    /\ consumerQueue = <<"Q", "dt", "result">>
    /\ Count(issued["listener"], "basic_consume") = 1

\* The listener's state in the terms of the lifecycle.
ListenerState ==
    IF pc["listener"] \in {"dead", "killed"} THEN "Stopped"
    ELSE IF pc["listener"] = "consuming" THEN "Consuming"
    ELSE IF pc["listener"] \in {"hr_load", "hr_present", "hr_ack", "hr_yaml_print",
                                "hr_yaml_nack", "hr_exc_print", "hr_exc_nack"}
         THEN "Processing"
    ELSE "Idle"

\* C18: the listener follows Idle -> Consuming -> (Processing -> Acked |
\* Rejected) -> Consuming ... -> Stopped.  It leaves Processing for
\* Consuming only with an Acked or Rejected outcome recorded for the
\* delivery at hand, and leaves Consuming or Processing for Stopped only on
\* cancellation (the process ends) or on the loss of its connection.  Once
\* Stopped it stays Stopped, opens no new connection and records no
\* further outcome.
C18_ListenerLifecycle ==
    [][/\ ListenerState # ListenerState' =>
            \/ /\ ListenerState = "Idle"
               /\ ListenerState' \in {"Consuming", "Stopped"}
            \/ /\ ListenerState = "Consuming"
               /\ ListenerState' = "Processing"
            \/ /\ ListenerState = "Processing"
               /\ ListenerState' = "Consuming"
               /\ deliv'[cur].outcome \in {"acked", "rejected"}
            \/ /\ ListenerState \in {"Consuming", "Processing"}
               /\ ListenerState' = "Stopped"
               /\ ~Usable("listener") \/ processGone'
       /\ ListenerState = "Stopped" =>
            /\ ListenerState' = "Stopped"
            /\ conn["listener"] # "open" => conn'["listener"] # "open"
            /\ Len(deliv') = Len(deliv)
            /\ \A t \in Tags : deliv'[t].outcome = deliv[t].outcome]_vars

\* C19: connect_and_listen issues connect, subscribe, one publish and then
\* enters the receive loop, in this order and each once.  The request is
\* published on the input topic, at most once, and only after the
\* subscription to the output topic was issued; in the receive loop exactly
\* one request has been published; when the payload cannot be loaded
\* nothing is published.
C19_MqttCallOrder ==
    /\ \E n \in 0..4 :
          mqttCalls = SubSeq(<<"connect", "subscribe", "publish", "loop_forever">>, 1, n)
    /\ Len(mqttSent) = Count(mqttCalls, "publish")
    /\ \A i \in DOMAIN mqttSent : mqttSent[i].topic = MqttConfig.input_topic
    /\ mqttSent # <<>> =>
          /\ Count(mqttCalls, "subscribe") = 1
          /\ MqttConfig.output_topic \in mqttSubs
    /\ mqttPc = "loop" => Len(mqttSent) = 1
    /\ mqttPayloadFile \in {"missing", "malformed"} => mqttSent = <<>>

\* The client is in its receive loop after its one publish and has
\* printed a message.
C19_Witness ==
    /\ mqttPc = "loop"
    /\ mqttCalls = <<"connect", "subscribe", "publish", "loop_forever">>
    /\ Len(mqttSent) = 1
    /\ mqttPrinted > 0

====
